---------------------------- MODULE Spec2Model ----------------------------
(***************************************************************************)
(* convert_shorqasm.py: macro "gate" definitions of a QASM text are parsed *)
(* by brace counting, removed from the text, expanded to a fixpoint and    *)
(* lowered to the native gates u and cx.                                   *)
(*                                                                         *)
(* A Python str is a sequence of one-character strings.  The regular       *)
(* expressions of the script are written out as the matchers the re module *)
(* runs for them: greedy runs, the leftmost match, and the one place where *)
(* backtracking changes a group (a name directly followed by the           *)
(* delimiter gives its last character to the next group).                  *)
(***************************************************************************)
EXTENDS Integers, Sequences, FiniteSets, TLC

\* the fixpoint loop has no cap; the model stops a run after MaxPasses passes
MaxPasses == 4
\* an input text holds at most MaxDefs definition blocks of the catalogue
MaxDefs == 2
\* and at most MaxStmts statements after them
MaxStmts == 1
\* an angle expression given to convert_line has at most MaxTheta characters
MaxTheta == 3
\* an invocation given to expand_once has at most MaxActuals parameters
MaxActuals == 2

Lowercase == {"a","b","c","d","e","f","g","h","i","j","k","l","m",
              "n","o","p","q","r","s","t","u","v","w","x","y","z"}
Uppercase == {"A","B","C","D","E","F","G","H","I","J","K","L","M",
              "N","O","P","Q","R","S","T","U","V","W","X","Y","Z"}
Digit == {"0","1","2","3","4","5","6","7","8","9"}

\* \w
WordChar == Lowercase \cup Uppercase \cup Digit \cup {"_"}
\* \s
Space == {" ", "\t", "\n"}
\* [\w,\s]
HeaderQubitClass == WordChar \cup Space \cup {","}
\* [\w\[\]0-9]
QubitClass == WordChar \cup {"[", "]"}
\* [\w\[\]0-9_,\s]
CallQubitClass == WordChar \cup Space \cup {"[", "]", ","}

\* Op applied to the value of v, which is computed once
With(v, Op(_)) == CHOOSE r \in {Op(x) : x \in {v}} : TRUE

SetMin(S) == CHOOSE x \in S : \A y \in S : x <= y
SetMax(S) == CHOOSE x \in S : \A y \in S : y <= x

\* the first index >= i of s whose character is outside Cls (Len(s)+1 if none):
\* the end of a greedy run Cls*
SkipClass(s, i, Cls) ==
  IF i > Len(s) THEN i
  ELSE With({j \in i..Len(s) : s[j] \notin Cls}, LAMBDA J :
         IF J = {} THEN Len(s) + 1 ELSE SetMin(J))

\* the first index >= i of s holding c, 0 if none: the end of [^c]*
IndexOf(s, i, c) ==
  With({j \in i..Len(s) : s[j] = c}, LAMBDA J :
    IF J = {} THEN 0 ELSE SetMin(J))

\* s[a:b] with 1-based a and exclusive b
Slice(s, a, b) == SubSeq(s, a, b - 1)

At(s, i) == IF i >= 1 /\ i <= Len(s) THEN s[i] ELSE ""

StartsWith(s, i, lit) ==
  /\ i >= 1
  /\ i + Len(lit) - 1 <= Len(s)
  /\ SubSeq(s, i, i + Len(lit) - 1) = lit

\* str.strip()
strip(s) ==
  With({j \in 1..Len(s) : s[j] \notin Space}, LAMBDA J :
    IF J = {} THEN <<>> ELSE SubSeq(s, SetMin(J), SetMax(J)))

\* str.split(c): always at least one piece
RECURSIVE split(_, _)
split(s, c) ==
  With(IndexOf(s, 1, c), LAMBDA k :
    IF k = 0 THEN <<s>>
    ELSE With(SubSeq(s, k + 1, Len(s)), LAMBDA rest :
           <<SubSeq(s, 1, k - 1)>> \o split(rest, c)))

\* [x.strip() for x in s.split(',')]
StripSplit(s) ==
  With(split(s, ","), LAMBDA ps : [k \in 1..Len(ps) |-> strip(ps[k])])

\* str.splitlines(): no piece for the end of a text that ends in a newline
splitlines(s) ==
  IF s = <<>> THEN <<>>
  ELSE With(split(s, "\n"), LAMBDA ps :
         IF ps[Len(ps)] = <<>> THEN SubSeq(ps, 1, Len(ps) - 1) ELSE ps)

\* '\n'.join(ls)
RECURSIVE join(_)
join(ls) ==
  IF ls = <<>> THEN <<>>
  ELSE IF Len(ls) = 1 THEN ls[1]
  ELSE ls[1] \o <<"\n">> \o join(Tail(ls))

\* str.count(c)
count(s, c) == Cardinality({j \in 1..Len(s) : s[j] = c})

\* re.sub of a literal pattern: leftmost matches, not overlapping
RECURSIVE SubLiteral(_, _, _, _)
SubLiteral(s, i, pat, rep) ==
  With({j \in i..Len(s) : StartsWith(s, j, pat)}, LAMBDA J :
    IF J = {} THEN SubSeq(s, i, Len(s))
    ELSE With(SetMin(J), LAMBDA k :
           Slice(s, i, k) \o rep \o SubLiteral(s, k + Len(pat), pat, rep)))

NoMatch == [ok |-> FALSE]

\* re.search from index i on: the first index at which Pat matches, 0 if none
FirstMatch(s, i, Pat(_, _)) ==
  With({j \in i..Len(s) : Pat(s, j).ok}, LAMBDA J :
    IF J = {} THEN 0 ELSE SetMin(J))

---------------------------------------------------------------------------
(* Gate lowering                                                           *)

\* cp\(([^)]+)\)\s+([\w\[\]0-9]+)\s*,\s*([\w\[\]0-9]+)\s*;  tried at index i
cp_pattern(s, i) ==
  IF ~StartsWith(s, i, <<"c","p","(">>) THEN NoMatch
  ELSE
  With(IndexOf(s, i + 3, ")"), LAMBDA e :
  With(SkipClass(s, e + 1, Space), LAMBDA c0 :
  With(SkipClass(s, c0, QubitClass), LAMBDA c1 :
  With(SkipClass(s, c1, Space), LAMBDA k :
  With(SkipClass(s, k + 1, Space), LAMBDA t0 :
  With(SkipClass(s, t0, QubitClass), LAMBDA t1 :
  With(SkipClass(s, t1, Space), LAMBDA z :
  IF /\ e > i + 3
     /\ c0 > e + 1
     /\ c1 > c0
     /\ At(s, k) = ","
     /\ t1 > t0
     /\ At(s, z) = ";"
  THEN [ok |-> TRUE, theta |-> Slice(s, i + 3, e), ctrl |-> Slice(s, c0, c1),
        tgt |-> Slice(s, t0, t1), end |-> z + 1]
  ELSE NoMatch)))))))

\* cp_sub with control and target exchanged in the cx statements
cp_sub_swapped(m) ==
  LET half == <<"(","(">> \o m.theta \o <<")","/","2",")">>
  IN  join(<< <<"u","(","0",",","0",",">> \o half \o <<")"," ">> \o m.tgt \o <<";">>,
              <<"c","x"," ">> \o m.tgt \o <<",">> \o m.ctrl \o <<";">>,
              <<"u","(","0",",","0",",","-">> \o half \o <<")"," ">> \o m.tgt \o <<";">>,
              <<"c","x"," ">> \o m.tgt \o <<",">> \o m.ctrl \o <<";">> >>)

\* _sub of cp_to_native
cp_sub(m) ==
  LET half == <<"(","(">> \o m.theta \o <<")","/","2",")">>
  IN  join(<< <<"u","(","0",",","0",",">> \o half \o <<")"," ">> \o m.tgt \o <<";">>,
              <<"c","x"," ">> \o m.ctrl \o <<",">> \o m.tgt \o <<";">>,
              <<"u","(","0",",","0",",","-">> \o half \o <<")"," ">> \o m.tgt \o <<";">>,
              <<"c","x"," ">> \o m.ctrl \o <<",">> \o m.tgt \o <<";">> >>)

RECURSIVE cp_sub_from(_, _)
cp_sub_from(s, i) ==
  With(FirstMatch(s, i, cp_pattern), LAMBDA j :
    IF j = 0 THEN SubSeq(s, i, Len(s))
    ELSE With(cp_pattern(s, j), LAMBDA m :
           Slice(s, i, j) \o cp_sub(m) \o cp_sub_from(s, m.end)))

cp_to_native(line) == cp_sub_from(line, 1)

\* p\(([^)]+)\)\s+([\w\[\]0-9]+)\s*;  tried at index i
p_pattern(s, i) ==
  IF ~StartsWith(s, i, <<"p","(">>) THEN NoMatch
  ELSE
  With(IndexOf(s, i + 2, ")"), LAMBDA e :
  With(SkipClass(s, e + 1, Space), LAMBDA t0 :
  With(SkipClass(s, t0, QubitClass), LAMBDA t1 :
  With(SkipClass(s, t1, Space), LAMBDA z :
  IF /\ e > i + 2
     /\ t0 > e + 1
     /\ t1 > t0
     /\ At(s, z) = ";"
  THEN [ok |-> TRUE, theta |-> Slice(s, i + 2, e),
        tgt |-> Slice(s, t0, t1), end |-> z + 1]
  ELSE NoMatch))))

\* _sub of p_to_native
p_sub(m) == <<"u","(","0",",","0",",">> \o m.theta \o <<")"," ">> \o m.tgt \o <<";">>

RECURSIVE p_sub_from(_, _)
p_sub_from(s, i) ==
  With(FirstMatch(s, i, p_pattern), LAMBDA j :
    IF j = 0 THEN SubSeq(s, i, Len(s))
    ELSE With(p_pattern(s, j), LAMBDA m :
           Slice(s, i, j) \o p_sub(m) \o p_sub_from(s, m.end)))

p_to_native(line) == p_sub_from(line, 1)

\* sign_normalize with the rule for +- written as the class [+-]
sign_normalize_class(line) ==
  With(SubLiteral(line, 1, <<"+","+">>, <<"+">>), LAMBDA a :
  With(SubLiteral(a, 1, <<"-","+">>, <<"-">>), LAMBDA b :
  With(SubLiteral(b, 1, <<"+">>, <<"-">>), LAMBDA c :
    SubLiteral(c, 1, <<"-","-">>, <<"-">>))))

\* the four sign substitutions, one after the other
sign_normalize(line) ==
  With(SubLiteral(line, 1, <<"+","+">>, <<"+">>), LAMBDA a :
  With(SubLiteral(a, 1, <<"-","+">>, <<"-">>), LAMBDA b :
  With(SubLiteral(b, 1, <<"+","-">>, <<"-">>), LAMBDA c :
    SubLiteral(c, 1, <<"-","-">>, <<"-">>))))

convert_line(line) == sign_normalize(p_to_native(cp_to_native(line)))

---------------------------------------------------------------------------
(* Definition parser and block removal                                     *)

\* \s*gate\s+(\w+)\s*(\([^)]*\))?\s*([\w,\s]+)\s*\{  tried at index i.
\* group3 is given up to the whitespace in front of it, which the callers strip.
\* A name directly followed by the brace matches with its last character as
\* the qubit list.
gate_header(s, i) ==
  With(SkipClass(s, i, Space), LAMBDA a :
  IF ~(StartsWith(s, a, <<"g","a","t","e">>) /\ At(s, a + 4) \in Space) THEN NoMatch
  ELSE
  With(SkipClass(s, a + 4, Space), LAMBDA c :
  With(SkipClass(s, c, WordChar), LAMBDA w :
  IF w = c THEN NoMatch
  ELSE
  With(SkipClass(s, w, Space), LAMBDA d :
  With(IF At(s, d) = "(" THEN IndexOf(s, d + 1, ")") ELSE 0, LAMBDA e :
  With(IF e > 0 THEN e + 1 ELSE w, LAMBDA r0 :
  With(SkipClass(s, r0, HeaderQubitClass), LAMBDA r1 :
  IF r1 > r0 /\ At(s, r1) = "{"
  THEN [ok |-> TRUE, name |-> Slice(s, c, w), hasParams |-> e > 0,
        group2 |-> IF e > 0 THEN Slice(s, d, e + 1) ELSE <<>>,
        group3 |-> Slice(s, r0, r1), end |-> r1 + 1]
  ELSE IF e = 0 /\ r1 = r0 /\ At(s, w) = "{" /\ w - c >= 2
  THEN [ok |-> TRUE, name |-> Slice(s, c, w - 1), hasParams |-> FALSE,
        group2 |-> <<>>, group3 |-> <<s[w - 1]>>, end |-> w + 1]
  ELSE NoMatch)))))))

\* m.group(2)[1:-1].split(',') stripped, or [] without group 2
header_params(m) ==
  IF m.hasParams THEN StripSplit(SubSeq(m.group2, 2, Len(m.group2) - 1))
  ELSE <<>>

header_qubits(m) == StripSplit(m.group3)

\* the inner while loop: the number of lines captured from lines[i] on, until
\* the brace balance returns to zero or the text ends
RECURSIVE capture(_, _, _)
capture(ls, j, brace) ==
  IF j > Len(ls) THEN 0
  ELSE With(brace + count(ls[j], "{") - count(ls[j], "}"), LAMBDA b :
         IF b = 0 THEN 1 ELSE 1 + capture(ls, j + 1, b))

\* [b.strip() for b in body if b.strip()]
RECURSIVE strip_nonblank(_)
strip_nonblank(ls) ==
  IF ls = <<>> THEN <<>>
  ELSE (IF strip(ls[1]) = <<>> THEN <<>> ELSE <<strip(ls[1])>>)
       \o strip_nonblank(Tail(ls))

\* gate_defs[name] = value
dict_set(d, key, value) ==
  [k \in DOMAIN d \cup {key} |-> IF k = key THEN value ELSE d[k]]

\* (?s)^\s*gate\s+\w+\s*(\([^)]*\))?\s*[\w,\s]+\s*\{[^}]*\}\s*  tried at index i,
\* MULTILINE: ^ holds at the start of the text and after a newline
gate_block(s, i) ==
  IF ~(i = 1 \/ At(s, i - 1) = "\n") THEN NoMatch
  ELSE With(gate_header(s, i), LAMBDA m :
       With(IF m.ok THEN IndexOf(s, m.end, "}") ELSE 0, LAMBDA f :
         IF f > 0 THEN [ok |-> TRUE, end |-> SkipClass(s, f + 1, Space)]
         ELSE NoMatch))

RECURSIVE remove_from(_, _)
remove_from(s, i) ==
  With(FirstMatch(s, i, gate_block), LAMBDA j :
    IF j = 0 THEN SubSeq(s, i, Len(s))
    ELSE With(gate_block(s, j), LAMBDA m :
           Slice(s, i, j) \o remove_from(s, m.end)))

remove_gate_blocks(qasm) == remove_from(qasm, 1)

---------------------------------------------------------------------------
(* Macro expansion                                                         *)

\* ^\s*(\w+)\s*(\([^)]*\))?\s*([\w\[\]0-9_,\s]+);\s*$  matched at the start.
\* A name directly followed by the semicolon matches with its last character
\* as the qubit list.
call_pat(s) ==
  With(SkipClass(s, 1, Space), LAMBDA a :
  With(SkipClass(s, a, WordChar), LAMBDA w :
  IF w = a THEN NoMatch
  ELSE
  With(SkipClass(s, w, Space), LAMBDA d :
  With(IF At(s, d) = "(" THEN IndexOf(s, d + 1, ")") ELSE 0, LAMBDA e :
  With(IF e > 0 THEN e + 1 ELSE w, LAMBDA r0 :
  With(SkipClass(s, r0, CallQubitClass), LAMBDA r1 :
  With(SkipClass(s, r0, Space), LAMBDA g3 :
  IF r1 > r0 /\ At(s, r1) = ";" /\ SkipClass(s, r1 + 1, Space) = Len(s) + 1
  THEN [ok |-> TRUE, group1 |-> Slice(s, a, w),
        group2 |-> IF e > 0 THEN Slice(s, d, e + 1) ELSE <<>>,
        group3 |-> IF g3 < r1 THEN Slice(s, g3, r1) ELSE <<s[r1 - 1]>>]
  ELSE IF /\ e = 0 /\ r1 = r0 /\ w - a >= 2
          /\ At(s, w) = ";" /\ SkipClass(s, w + 1, Space) = Len(s) + 1
  THEN [ok |-> TRUE, group1 |-> Slice(s, a, w - 1), group2 |-> <<>>,
        group3 |-> <<s[w - 1]>>]
  ELSE NoMatch)))))))

Min(a, b) == IF a < b THEN a ELSE b

\* \b at index i: exactly one of s[i-1], s[i] is a word character
word_boundary(s, i) == (At(s, i - 1) \in WordChar) # (At(s, i) \in WordChar)

\* re.sub(rf'\b{re.escape(fp)}\b', ap, line) from index i on; an empty fp
\* matches at every word boundary
\* word_match without the closing \b
word_match_open(s, i, fp) ==
  /\ word_boundary(s, i)
  /\ (fp = <<>> \/ StartsWith(s, i, fp))

word_match(s, i, fp) ==
  /\ word_boundary(s, i)
  /\ (fp = <<>> \/ StartsWith(s, i, fp))
  /\ word_boundary(s, i + Len(fp))

RECURSIVE sub_word_from(_, _, _, _)
sub_word_from(s, i, fp, ap) ==
  With({j \in i..(Len(s) + 1) : word_match(s, j, fp)}, LAMBDA J :
    IF J = {} THEN SubSeq(s, i, Len(s))
    ELSE With(SetMin(J), LAMBDA k :
           IF fp = <<>>
           THEN Slice(s, i, k) \o ap \o Slice(s, k, Min(k + 1, Len(s) + 1))
                \o sub_word_from(s, k + 1, fp, ap)
           ELSE Slice(s, i, k) \o ap \o sub_word_from(s, k + Len(fp), fp, ap)))

sub_word(fp, ap, line) == sub_word_from(line, 1, fp, ap)

\* dict(zip(formal, actual)) as the list of its items: a repeated formal keeps
\* its first place and its last value
RECURSIVE zip_dict(_, _, _)
zip_dict(formal, actual, k) ==
  IF k > Min(Len(formal), Len(actual)) THEN <<>>
  ELSE LET later == {j \in (k + 1)..Min(Len(formal), Len(actual)) : formal[j] = formal[k]}
           first == \A j \in 1..(k - 1) : formal[j] # formal[k]
           last  == IF later = {} THEN k
                    ELSE CHOOSE j \in later : \A x \in later : x <= j
       IN  (IF first THEN << <<formal[k], actual[last]>> >> ELSE <<>>)
           \o zip_dict(formal, actual, k + 1)

\* for fp, ap in map.items(): line = re.sub(...)
RECURSIVE sub_items(_, _)
sub_items(items, line) ==
  IF items = <<>> THEN line
  ELSE With(sub_word(items[1][1], items[1][2], line), LAMBDA l :
         sub_items(Tail(items), l))

\* the lines one invocation m of gdef appends to out
expand_call(gdef, m) ==
  With(IF m.group2 # <<>>
       THEN StripSplit(SubSeq(m.group2, 2, Len(m.group2) - 1)) ELSE <<>>,
       LAMBDA actual_p :
  With(zip_dict(gdef.params, actual_p, 1), LAMBDA pm :
  With(zip_dict(gdef.qubits, StripSplit(m.group3), 1), LAMBDA qm :
    [k \in 1..Len(gdef.body) |->
       convert_line(sub_items(qm, sub_items(pm, gdef.body[k])))])))

\* whether expand_once expands ln
is_call(defs, ln) ==
  With(call_pat(ln), LAMBDA m : m.ok /\ m.group1 \in DOMAIN defs)

RECURSIVE expand_lines(_, _)
expand_lines(defs, lines_in) ==
  IF lines_in = <<>> THEN <<>>
  ELSE With(call_pat(lines_in[1]), LAMBDA m :
         (IF m.ok /\ m.group1 \in DOMAIN defs
          THEN expand_call(defs[m.group1], m)
          ELSE <<convert_line(lines_in[1])>>)
         \o expand_lines(defs, Tail(lines_in)))

expand_once(defs, lines_in) ==
  [out |-> expand_lines(defs, lines_in),
   changed |-> \E k \in 1..Len(lines_in) : is_call(defs, lines_in[k])]

---------------------------------------------------------------------------
(* The script as a state machine                                           *)

VARIABLES
  text,        \* SRC.read_text()
  pc,          \* "parse", "expand", "done", or "failed" after an uncaught error
  lines,       \* text.splitlines()
  i,           \* index of the parser loop, counted from 0
  gate_defs,   \* name -> [params, qubits, body]
  header,      \* first line of the residual text
  body_lines,  \* the statement sequence the passes rewrite
  changed,     \* the loop variable of the fixpoint loop
  passes,      \* number of passes run so far
  expanding,   \* number of passes that expanded an invocation
  dest,        \* the output file: <<>> while not written, else <<its text>>
  \* convert_line on its own
  stmt,        \* the line given to convert_line
  once,        \* <<>>, then <<convert_line(stmt)>>
  twice,       \* <<>>, then <<convert_line(convert_line(stmt))>>
  \* one invocation in expand_once, a substitution at a time
  written,     \* the definition and the invocation as written in the text
  epc,         \* "match", "subst", "end"
  p_map,       \* items of dict(zip(formal_p, actual_p))
  q_map,       \* items of dict(zip(formal_q, actual_q))
  todo,        \* the items still to substitute in cur
  bidx,        \* index of the body line in work
  cur,         \* the variable line of the inner loop
  out,         \* the list out
  last         \* <<>>, or the substitution just made: [fp, ap, before]

pipeVars == <<text, pc, lines, i, gate_defs, header, body_lines, changed,
              passes, expanding, dest>>
lowerVars == <<stmt, once, twice>>
expandVars == <<written, epc, p_map, q_map, todo, bidx, cur, out, last>>
vars == <<pipeVars, lowerVars, expandVars>>

\* one iteration of the outer while loop of the parser, at lines[i]
parse_step(ls, k, defs) ==
  LET m == gate_header(ls[k + 1], 1)
      c == capture(ls, k + 1, 0)
      body == SubSeq(ls, k + 2, k + c - 1)
  IN  IF m.ok
      THEN [i |-> k + c,
            defs |-> dict_set(defs, m.name,
                       [params |-> header_params(m), qubits |-> header_qubits(m),
                        body |-> strip_nonblank(body)])]
      ELSE [i |-> k + 1, defs |-> defs]

\* ParseLine with an error for a block the text ends in
ParseLineStrict ==
  /\ pc = "parse"
  /\ i < Len(lines)
  /\ LET r == parse_step(lines, i, gate_defs)
         captured == join(SubSeq(lines, i + 1, r.i))
     IN  IF gate_header(lines[i + 1], 1).ok
            /\ count(captured, "{") # count(captured, "}")
         THEN pc' = "failed" /\ UNCHANGED <<i, gate_defs>>
         ELSE i' = r.i /\ gate_defs' = r.defs /\ pc' = pc
  /\ UNCHANGED <<text, lines, header, body_lines, changed, passes,
                 expanding, dest, lowerVars, expandVars>>

ParseLine ==
  /\ pc = "parse"
  /\ i < Len(lines)
  /\ LET r == parse_step(lines, i, gate_defs)
     IN  i' = r.i /\ gate_defs' = r.defs
  /\ UNCHANGED <<text, pc, lines, header, body_lines, changed, passes,
                 expanding, dest, lowerVars, expandVars>>

\* header, *body_part = remove_gate_blocks(text).splitlines(): a ValueError
\* when there is no line left
RemoveGateBlocks ==
  /\ pc = "parse"
  /\ i >= Len(lines)
  /\ LET rest == splitlines(remove_gate_blocks(text))
     IN  IF rest = <<>>
         THEN pc' = "failed" /\ UNCHANGED <<header, body_lines, changed>>
         ELSE /\ pc' = "expand"
              /\ header' = rest[1]
              /\ body_lines' = Tail(rest)
              /\ changed' = TRUE
  /\ UNCHANGED <<text, lines, i, gate_defs, passes, expanding, dest,
                 lowerVars, expandVars>>

\* body_lines, changed = expand_once(body_lines)
ExpandPass ==
  /\ pc = "expand"
  /\ changed
  /\ passes < MaxPasses
  /\ LET r == expand_once(gate_defs, body_lines)
     IN  /\ body_lines' = r.out
         /\ changed' = r.changed
         /\ expanding' = expanding + (IF r.changed THEN 1 ELSE 0)
  /\ passes' = passes + 1
  /\ UNCHANGED <<text, pc, lines, i, gate_defs, header, dest,
                 lowerVars, expandVars>>

\* [ln for ln in body_lines if ln.strip()]
RECURSIVE nonblank(_)
nonblank(ls) ==
  IF ls = <<>> THEN <<>>
  ELSE (IF strip(ls[1]) = <<>> THEN <<>> ELSE <<ls[1]>>) \o nonblank(Tail(ls))

output_text(h, ls) == h \o <<"\n">> \o join(nonblank(ls)) \o <<"\n">>

\* clean = ...; DEST.write_text(header + '\n' + clean + '\n')
WriteDest ==
  /\ pc = "expand"
  /\ ~changed
  /\ dest' = <<output_text(header, body_lines)>>
  /\ pc' = "done"
  /\ UNCHANGED <<text, lines, i, gate_defs, header, body_lines, changed,
                 passes, expanding, lowerVars, expandVars>>

\* res = convert_line(stmt)
Lower ==
  /\ once = <<>>
  /\ stmt # <<"idle">>
  /\ once' = <<convert_line(stmt)>>
  /\ UNCHANGED <<stmt, twice, pipeVars, expandVars>>

\* convert_line(res)
LowerAgain ==
  /\ once # <<>>
  /\ twice = <<>>
  /\ twice' = <<convert_line(once[1])>>
  /\ UNCHANGED <<stmt, once, pipeVars, expandVars>>

\* expand_once up to the substitution maps, for the one line of body_lines
MatchCall ==
  /\ epc = "match"
  /\ LET ln == body_lines[1]
         m  == call_pat(ln)
     IN  IF ~is_call(gate_defs, ln)
         THEN /\ out' = Append(out, convert_line(ln))
              /\ epc' = "end"
              /\ UNCHANGED <<p_map, q_map, todo, bidx, cur, changed>>
         ELSE LET gdef     == gate_defs[m.group1]
                  arg_str  == m.group2
                  actual_p == IF arg_str # <<>>
                              THEN StripSplit(SubSeq(arg_str, 2, Len(arg_str) - 1))
                              ELSE <<>>
                  actual_q == StripSplit(m.group3)
                  pm == zip_dict(gdef.params, actual_p, 1)
                  qm == zip_dict(gdef.qubits, actual_q, 1)
              IN  /\ p_map' = pm
                  /\ q_map' = qm
                  /\ changed' = TRUE
                  /\ out' = out
                  /\ IF gdef.body = <<>>
                     THEN epc' = "end" /\ UNCHANGED <<todo, bidx, cur>>
                     ELSE /\ epc' = "subst"
                          /\ bidx' = 1
                          /\ cur' = gdef.body[1]
                          /\ todo' = pm \o qm
  /\ UNCHANGED <<text, pc, lines, i, gate_defs, header, body_lines, passes,
                 expanding, dest, written, last, lowerVars>>

\* line = re.sub(rf'\b{re.escape(fp)}\b', ap, line), for the next item of
\* p_map, then of q_map
SubstFormal ==
  /\ epc = "subst"
  /\ todo # <<>>
  /\ cur' = sub_word(todo[1][1], todo[1][2], cur)
  /\ last' = [fp |-> todo[1][1], ap |-> todo[1][2], before |-> cur]
  /\ todo' = Tail(todo)
  /\ UNCHANGED <<pipeVars, lowerVars, written, epc, p_map, q_map, bidx, out>>

\* out.append(convert_line(line)), and the next body line
AppendLine ==
  /\ epc = "subst"
  /\ todo = <<>>
  /\ out' = Append(out, convert_line(cur))
  /\ last' = <<>>
  /\ LET body == gate_defs[call_pat(body_lines[1]).group1].body
     IN  IF bidx < Len(body)
         THEN /\ bidx' = bidx + 1
              /\ cur' = body[bidx + 1]
              /\ todo' = p_map \o q_map
              /\ epc' = epc
         ELSE epc' = "end" /\ UNCHANGED <<bidx, cur, todo>>
  /\ UNCHANGED <<pipeVars, lowerVars, written, p_map, q_map>>

---------------------------------------------------------------------------
(* Input texts                                                             *)

\* first lines of a text: none, the version line, a blank line before it
Headers == { <<>>, <<"O","P","E","N","Q","A","S","M"," ","2",".","0",";","\n">>, <<"\n","O","P","E","N","Q","A","S","M"," ","2",".","0",";","\n">> }

D_foo1 == <<"g","a","t","e"," ","f","o","o","(","a",")"," ","q"," ","{"," ","p","(","a",")"," ","q",";"," ","}","\n">>
D_foo  == <<"g","a","t","e"," ","f","o","o","(","a",")"," ","q"," ","{","\n"," "," ","p","(","a",")"," ","q",";","\n","}","\n">>
D_h    == <<"g","a","t","e"," ","h","(","x",")"," ","c",",","t"," ","{","\n"," "," ","c","p","(","x",")"," ","c",",","t",";","\n","}","\n">>
D_k    == <<"g","a","t","e"," ","k","(","y",")"," ","a",",","b"," ","{","\n"," "," ","h","(","y",")"," ","a",",","b",";","\n","}","\n">>
D_w    == <<"g","a","t","e"," ","w","(","f",")"," ","q"," ","{","\n"," "," ","f"," ","q",";","\n","}","\n">>
D_u    == <<"g","a","t","e"," ","u","(","a",",","b",",","c",")"," ","q"," ","{","\n"," "," ","p","(","c",")"," ","q",";","\n","}","\n">>
D_bad  == <<"g","a","t","e"," ","b","a","d"," ","q"," ","{","\n"," "," ","c","x"," ","q",",","q",";","\n">>

DefBlocks == <<D_foo1, D_foo, D_h, D_k, D_w, D_u, D_bad>>

S_foo    == <<"f","o","o","(","0",".","5",")"," ","q","[","0","]",";","\n">>
S_nested == <<"f","o","o","(","(","a","+","b",")","/","2",")"," ","q","[","0","]",";","\n">>
S_k      == <<"k","(","x",")"," ","q","[","0","]",",","q","[","1","]",";","\n">>
S_w      == <<"w","(","f","o","o",")"," ","q","[","0","]",";","\n">>
S_u      == <<"u","(","0",",","0",",","x",")"," ","q","[","1","]",";","\n">>
S_bad    == <<"b","a","d"," ","q","[","1","]",";","\n">>
S_blank  == <<" "," ","\n">>

Stmts == <<S_foo, S_nested, S_k, S_w, S_u, S_bad, S_blank>>

\* the chosen blocks and statements, in catalogue order
RECURSIVE concat_defs(_, _)
concat_defs(S, k) ==
  IF k > Len(DefBlocks) THEN <<>>
  ELSE (IF k \in S THEN DefBlocks[k] ELSE <<>>) \o concat_defs(S, k + 1)

RECURSIVE concat_stmts(_, _)
concat_stmts(Q, k) ==
  IF k > Len(Stmts) THEN <<>>
  ELSE (IF k \in Q THEN Stmts[k] ELSE <<>>) \o concat_stmts(Q, k + 1)

MakeText(h, S, Q) == h \o concat_defs(S, 1) \o concat_stmts(Q, 1)

DefChoices == {S \in SUBSET (1..Len(DefBlocks)) : Cardinality(S) <= MaxDefs}
StmtChoices == {Q \in SUBSET (1..Len(Stmts)) : Cardinality(Q) <= MaxStmts}

Sources == {MakeText(h, S, Q) : h \in Headers, S \in DefChoices, Q \in StmtChoices}

IdlePipe ==
  /\ text = <<>> /\ pc = "idle" /\ lines = <<>> /\ i = 0 /\ gate_defs = <<>>
  /\ header = <<>> /\ body_lines = <<>> /\ changed = FALSE /\ passes = 0
  /\ expanding = 0 /\ dest = <<>>

IdleLower == stmt = <<"idle">> /\ once = <<>> /\ twice = <<>>

IdleExpand ==
  /\ written = <<>> /\ epc = "idle" /\ p_map = <<>> /\ q_map = <<>> /\ todo = <<>>
  /\ bidx = 0 /\ cur = <<>> /\ out = <<>> /\ last = <<>>

Init ==
  /\ text \in Sources
  /\ pc = "parse"
  /\ lines = splitlines(text)
  /\ i = 0
  /\ gate_defs = <<>>
  /\ header = <<>>
  /\ body_lines = <<>>
  /\ changed = TRUE
  /\ passes = 0
  /\ expanding = 0
  /\ dest = <<>>
  /\ IdleLower
  /\ IdleExpand

Next == ParseLine \/ RemoveGateBlocks \/ ExpandPass \/ WriteDest

Spec == Init /\ [][Next]_vars

---------------------------------------------------------------------------
(* convert_line on single statements                                       *)

ThetaChars == {"a", "2", "+", "-"}
Thetas == UNION {[1..m -> ThetaChars] : m \in 0..MaxTheta}
QubitPairs == { << <<"q","[","0","]">>, <<"q","[","1","]">> >>, << <<"a">>, <<"b">> >> }

CpStmt(th, c, t) == <<"c","p","(">> \o th \o <<")"," ">> \o c \o <<",">> \o t \o <<";">>
PStmt(th, t)     == <<"p","(">> \o th \o <<")"," ">> \o t \o <<";">>
UStmt(th, t)     == <<"u","(","0",",","0",",">> \o th \o <<")"," ">> \o t \o <<";">>
CxStmt(c, t)     == <<"c","x"," ">> \o c \o <<",">> \o t \o <<";">>
\* a gate whose name ends in p
XpStmt(th, t)    == <<"x","p","(">> \o th \o <<")"," ">> \o t \o <<";">>

NativeStmts ==
  {UStmt(th, qp[2]) : th \in Thetas, qp \in QubitPairs}
    \cup {CxStmt(qp[1], qp[2]) : qp \in QubitPairs}

LowerInputs ==
  {CpStmt(th, qp[1], qp[2]) : th \in Thetas, qp \in QubitPairs}
    \cup {PStmt(th, qp[2]) : th \in Thetas, qp \in QubitPairs}
    \cup {XpStmt(th, qp[2]) : th \in Thetas, qp \in QubitPairs}
    \cup NativeStmts
    \cup { <<" "," ","c","x"," ","a",",","b",";">>, <<"b","a","r","r","i","e","r"," ","q",";">>, <<"h"," ","q","[","0","]",";">>, <<"q","r","e","g"," ","q","[","2","]",";">> }

InitLower ==
  /\ stmt \in LowerInputs
  /\ once = <<>>
  /\ twice = <<>>
  /\ IdlePipe
  /\ IdleExpand

NextLower == Lower \/ LowerAgain

SpecLower == InitLower /\ [][NextLower]_vars

---------------------------------------------------------------------------
(* One invocation of one definition                                        *)

\* ','.join(ls)
RECURSIVE join_comma(_)
join_comma(ls) ==
  IF ls = <<>> THEN <<>>
  ELSE IF Len(ls) = 1 THEN ls[1]
  ELSE ls[1] \o <<",">> \o join_comma(Tail(ls))

\* a parameter list as written: absent, or in parentheses
ParamText(parens, ls) ==
  IF parens THEN <<"(">> \o join_comma(ls) \o <<")">> ELSE <<>>

FormalParamChoices ==
  { [parens |-> FALSE, list |-> <<>>],
    [parens |-> TRUE,  list |-> <<>>],
    [parens |-> TRUE,  list |-> << <<"x">> >>],
    [parens |-> TRUE,  list |-> << <<"x">>, <<"y">> >>] }

FormalQubitChoices ==
  { << <<"q">> >>, << <<"a">>, <<"b">> >>, << <<"q">>, <<"q","2">> >> }

BodyChoices ==
  { << <<"c","x"," ","a",",","b",";">> >>,
    << <<"c","x"," ","q",",","q","2",";">> >>,
    << <<"u","(","0",",","x",",","y",")"," ","q",";">> >>,
    << <<"p","(","x",")"," ","q",";">>, <<"c","x"," ","q",",","q","2",";">> >>,
    << <<"c","p","(","x",")"," ","a",",","b",";">> >> }

ActualTexts == { <<"1">>, <<"y">>, <<"q","[","0","]">> }

ActualParamChoices ==
  {[parens |-> FALSE, list |-> <<>>]}
    \cup {[parens |-> TRUE, list |-> ls] :
            ls \in UNION {[1..m -> ActualTexts] : m \in 0..MaxActuals}}

ActualQubitChoices ==
  { << <<"q","[","0","]">> >>, << <<"b">>, <<"a">> >>, << <<"q","[","1","]">>, <<"q","[","0","]">> >>,
    << <<"q","[","0","]">>, <<"q","[","1","]">>, <<"q","[","2","]">> >> }

\* the lines of the definition of g as written
DefLines(w) ==
  << <<"g","a","t","e"," ","g">> \o ParamText(w.dparams.parens, w.dparams.list)
       \o <<" ">> \o join_comma(w.dqubits) \o <<" ","{">> >>
    \o w.body \o << <<"}">> >>

\* the invocation of g as written
CallLine(w) ==
  <<"g">> \o ParamText(w.aparams.parens, w.aparams.list)
    \o <<" ">> \o join_comma(w.aqubits) \o <<";">>

InitExpand ==
  /\ written \in [dparams : FormalParamChoices, dqubits : FormalQubitChoices,
                  body : BodyChoices, aparams : ActualParamChoices,
                  aqubits : ActualQubitChoices]
  /\ text = join(DefLines(written))
  /\ pc = "idle"
  /\ lines = DefLines(written)
  /\ i = 0
  /\ gate_defs = parse_step(DefLines(written), 0, <<>>).defs
  /\ header = <<>>
  /\ body_lines = <<CallLine(written)>>
  /\ changed = FALSE
  /\ passes = 0
  /\ expanding = 0
  /\ dest = <<>>
  /\ epc = "match"
  /\ p_map = <<>> /\ q_map = <<>> /\ todo = <<>>
  /\ bidx = 0 /\ cur = <<>> /\ out = <<>> /\ last = <<>>
  /\ IdleLower

NextExpand == MatchCall \/ SubstFormal \/ AppendLine

SpecExpand == InitExpand /\ [][NextExpand]_vars

---------------------------------------------------------------------------
(* Properties of the whole run                                             *)

\* the identifier a statement starts with
HeadIdent(s) ==
  LET a == SkipClass(s, 1, Space) IN Slice(s, a, SkipClass(s, a, WordChar))

\* the statements of a sequence of lines: a line may hold several, one per
\* text line, after a cp decomposition
RECURSIVE Statements(_)
Statements(ls) ==
  IF ls = <<>> THEN <<>> ELSE split(ls[1], "\n") \o Statements(Tail(ls))

Range(f) == {f[x] : x \in DOMAIN f}

MaxOf(S) == IF S = {} THEN 0 ELSE SetMax(S)

\* the macros the body of g invokes
Refs(defs, g) == {HeadIdent(b) : b \in Range(defs[g].body)} \cap DOMAIN defs

\* nesting depth of g, followed for at most fuel levels
RECURSIVE Depth(_, _, _)
Depth(defs, g, fuel) ==
  IF fuel = 0 THEN 0
  ELSE 1 + MaxOf({Depth(defs, h, fuel - 1) : h \in Refs(defs, g)})

Acyclic(defs) ==
  LET N == Cardinality(DOMAIN defs)
  IN  \A g \in DOMAIN defs : Depth(defs, g, N + 1) = Depth(defs, g, N)

MaxDepth(defs) ==
  MaxOf({Depth(defs, g, Cardinality(DOMAIN defs)) : g \in DOMAIN defs})

\* a text with a version line, the one-line definition of foo and one call
Scenario1 ==
  {MakeText(h, {1}, {1}) : h \in Headers \ {<<>>}}

\* C2: for the one-line definition gate foo(a) q { p(a) q; } and the body
\* foo(0.5) q[0]; the emitted body is exactly u(0,0,0.5) q[0];
C2_EndToEnd ==
  (text \in Scenario1 /\ pc = "done")
    => nonblank(body_lines) = << <<"u","(","0",",","0",",","0",".","5",")"," ","q","[","0","]",";">> >>

\* C3: when the expansion loop stops, no statement of the sequence has a
\* head identifier that is a key of the definition mapping
C3_NoMacroLeft ==
  (pc = "expand" /\ ~changed)
    => \A st \in Range(Statements(body_lines)) : HeadIdent(st) \notin DOMAIN gate_defs

\* C4: with an acyclic macro reference graph the number of passes that
\* expand an invocation is at most the maximum macro nesting depth
C4_PassBound ==
  (pc \in {"expand", "done"} /\ Acyclic(gate_defs))
    => expanding <= MaxDepth(gate_defs)

\* C5: the text written has no line that is empty or whitespace-only
C5_NoBlankLine ==
  dest # <<>> => \A ln \in Range(splitlines(dest[1])) : strip(ln) # <<>>

\* a definition header whose opening brace is never closed before the end
\* of the text
UnclosedHeader(t) ==
  LET ls == splitlines(t)
      balance(a, b) == count(join(SubSeq(ls, a, b)), "{")
                       - count(join(SubSeq(ls, a, b)), "}")
  IN  \E k \in 1..Len(ls) :
        /\ gate_header(ls[k], 1).ok
        /\ \A j \in k..Len(ls) : balance(k, j) # 0

---------------------------------------------------------------------------
(* Properties of convert_line                                              *)

Signs == {"+", "-"}

NoSignPair(s) ==
  \A j \in 1..(Len(s) - 1) : ~(s[j] \in Signs /\ s[j + 1] \in Signs)

NoPCall(s) == \A j \in 1..Len(s) : ~StartsWith(s, j, <<"p","(">>)

\* C1 as stated: cp(th) c,t; gives u(0,0,(th)/2) t; cx c,t; u(0,0,-(th)/2) t;
\* cx c,t; with th copied as it is and nothing added
C1_CpAsStated ==
  \A th \in Thetas \ {<<>>}, qp \in QubitPairs :
    (stmt = CpStmt(th, qp[1], qp[2]) /\ once # <<>>)
      => split(once[1], "\n") =
           << <<"u","(","0",",","0",",","(">> \o th \o <<")","/","2",")"," ">> \o qp[2] \o <<";">>,
              CxStmt(qp[1], qp[2]),
              <<"u","(","0",",","0",",","-","(">> \o th \o <<")","/","2",")"," ">> \o qp[2] \o <<";">>,
              CxStmt(qp[1], qp[2]) >>

\* C1: for a non-empty th without two adjacent signs, cp(th) c,t; gives one
\* line of four statements u(0,0,((th)/2)) t; cx c,t; u(0,0,-((th)/2)) t;
\* cx c,t; separated by newlines, the half angle in its own parentheses
C1_CpDecomposition ==
  \A th \in Thetas \ {<<>>}, qp \in QubitPairs :
    (stmt = CpStmt(th, qp[1], qp[2]) /\ once # <<>> /\ NoSignPair(th))
      => split(once[1], "\n") =
           << <<"u","(","0",",","0",",","(","(">> \o th \o <<")","/","2",")",")"," ">> \o qp[2] \o <<";">>,
              CxStmt(qp[1], qp[2]),
              <<"u","(","0",",","0",",","-","(","(">> \o th \o <<")","/","2",")",")"," ">> \o qp[2] \o <<";">>,
              CxStmt(qp[1], qp[2]) >>

C1_Witness ==
  /\ once # <<>>
  /\ \E th \in Thetas :
       /\ Len(th) >= 2 /\ NoSignPair(th) /\ th[1] = "-"
       /\ stmt = CpStmt(th, <<"q","[","0","]">>, <<"q","[","1","]">>)

\* C8 as stated: a native statement, and any statement whose head is neither
\* cp nor p, is returned unchanged, and lowering twice equals lowering once
C8_AsStated ==
  /\ (once # <<>> /\ (stmt \in NativeStmts \/ HeadIdent(stmt) \notin { <<"c","p">>, <<"p">> }))
       => once[1] = stmt
  /\ twice # <<>> => twice = once

\* C8: a statement without the text p( and without two adjacent signs is
\* returned unchanged, and lowering it twice equals lowering it once
C8_Unchanged ==
  (once # <<>> /\ NoPCall(stmt) /\ NoSignPair(stmt))
    => (once[1] = stmt /\ (twice # <<>> => twice = once))

C8_Witness ==
  /\ twice # <<>>
  /\ \E th \in Thetas :
       /\ Len(th) >= 3 /\ NoSignPair(th) /\ th[2] = "+"
       /\ stmt = UStmt(th, <<"q","[","1","]">>)

---------------------------------------------------------------------------
(* Properties of one expansion                                             *)

\* s with every identifier that is a key of items replaced by its value, all
\* at once: the text put in is not looked at again
RECURSIVE SimSubstFrom(_, _, _)
SimSubstFrom(s, k, items) ==
  IF k > Len(s) THEN <<>>
  ELSE IF s[k] \in WordChar
  THEN LET w   == SkipClass(s, k, WordChar)
           tok == Slice(s, k, w)
           hit == {x \in 1..Len(items) : items[x][1] = tok}
       IN  (IF hit = {} THEN tok ELSE items[SetMin(hit)][2])
           \o SimSubstFrom(s, w, items)
  ELSE LET J == {j \in k..Len(s) : s[j] \in WordChar}
           w == IF J = {} THEN Len(s) + 1 ELSE SetMin(J)
       IN  Slice(s, k, w) \o SimSubstFrom(s, w, items)

SimSubst(s, items) == SimSubstFrom(s, 1, items)

\* formals paired with actuals by position, as far as both lists go
Pairs(formal, actual) ==
  [k \in 1..Min(Len(formal), Len(actual)) |-> <<formal[k], actual[k]>>]

WrittenFormals == Range(written.dparams.list) \cup Range(written.dqubits)

\* the steps of the model add up to expand_once
StepsAgree ==
  epc = "end" => out = expand_once(gate_defs, body_lines).out

\* C6: the substitution of a formal symbol rewrites exactly the whole
\* identifiers equal to it: every q is replaced, q2 is left as it is
C6_WholeIdentifiers ==
  (last # <<>> /\ last.fp \in WrittenFormals)
    => cur = SimSubst(last.before, << <<last.fp, last.ap>> >>)

C6_Witness ==
  /\ last # <<>>
  /\ last.fp = <<"q">>
  /\ last.before = <<"c","x"," ","q",",","q","2",";">>
  /\ cur # last.before

\* C7: formals beyond the actuals written keep their text, actuals beyond
\* the formals written are dropped, for parameters and qubits alike: the
\* body is emitted with exactly the pairs of the two written lists
C7_ArityPolicy ==
  epc = "end"
    => out = [k \in 1..Len(written.body) |->
                convert_line(
                  sub_items(Pairs(written.dqubits, written.aqubits),
                    sub_items(Pairs(written.dparams.list, written.aparams.list),
                              written.body[k])))]

\* C9: every emitted line is the body line with all formals replaced at
\* once by their actuals
C9_Simultaneous ==
  (epc = "end" /\ \A k \in 1..Len(p_map \o q_map) : (p_map \o q_map)[k][1] \in WrittenFormals)
    => out = [k \in 1..Len(written.body) |->
                convert_line(SimSubst(written.body[k], p_map \o q_map))]

=============================================================================
